---- MODULE Spec2Model ----
(***************************************************************************)
(* Model of the arXiv paper curator's download -> parse pipeline           *)
(* (src/src/services/metadata_fetcher.py), of the PDF parser service it    *)
(* calls (src/src/services/pdf_parser/parser.py) and of the rate limiting  *)
(* of ArxivClient.fetch_papers (src/src/services/arxiv/client.py).         *)
(*                                                                         *)
(* Every coroutine is cut at the places where asyncio may suspend it       *)
(* (semaphore acquisition, the download call, the awaited parse call,      *)
(* asyncio.sleep, the HTTP request); the code between two such places runs *)
(* as one atomic action, as it does on the event loop.                     *)
(***************************************************************************)
EXTENDS Integers, Sequences, FiniteSets, TLC

(* ---- bounds of the model ---- *)
MaxPapers == 3
MaxDownloads == 2
MaxParsing == 2
NumCallers == 3
MaxClock == 7
MaxAttempts == 4
MaxDownloadCalls == 2
MaxEntries == 2
MaxIdLen == 3
MaxLinks == 2

VARIABLES
    papers,                   \* list[ArxivPaper] given to _batch_process_pdfs
    max_concurrent_downloads, \* MetadataFetcher.max_concurrent_downloads
    max_concurrent_parsing,   \* MetadataFetcher.max_concurrent_parsing
    download_semaphore,       \* value of asyncio.Semaphore (free slots)
    parse_semaphore,          \* value of asyncio.Semaphore (free slots)
    pc,                       \* position of each _download_parse_pipeline task
    pdf_path,                 \* local pdf_path of each task
    download_success,         \* local download_success of each task
    pdf_content,              \* local pdf_content of each task
    parser_raised,            \* what DoclingPDFParser.parse did for the task
    parser_calls,             \* number of pdf_parser.parse calls of each task
    dl_holders,               \* tasks inside "async with download_semaphore"
    parse_holders,            \* tasks inside "async with parse_semaphore"
    task_result,              \* what each task returned or raised
    orch,                     \* position of _batch_process_pdfs
    pipeline_results,         \* list returned by asyncio.gather
    folded,                   \* (paper, result) pairs the result loop visited
    errors,                   \* ProcessingStat.errors
    clock,                    \* time.time()
    last_request_time,        \* ArxivClient._last_request_time (-1 = None)
    rl_pc,                    \* position of each fetch_papers caller
    wake,                     \* wake-up time of each sleeping caller
    calls                     \* times at which requests were issued

pipeVars == <<papers, max_concurrent_downloads, max_concurrent_parsing,
              download_semaphore, parse_semaphore, pc, pdf_path,
              download_success, pdf_content, parser_raised, parser_calls,
              dl_holders, parse_holders, task_result, orch, pipeline_results,
              folded, errors>>
rateVars == <<clock, last_request_time, rl_pc, wake, calls>>

VARIABLES
    run_pc,                   \* position of fetch_and_process_papers
    arg_max_results,          \* its max_results argument (0 = None)
    arg_process_pdfs,         \* its process_pdfs argument
    arg_store_to_db,          \* its store_to_db argument
    fetch_raised,             \* the exception fetch_papers ended with
    papers_fetched,           \* processing_stat.papers_fetched
    pdfs_downloaded,          \* processing_stat.pdfs_downloaded
    pdfs_parsed,              \* processing_stat.pdfs_parsed
    pipelines_started,        \* item pipelines started by the run
    run_result                \* what the caller of the run receives

runVars == <<run_pc, arg_max_results, arg_process_pdfs, arg_store_to_db,
             fetch_raised, papers_fetched, pdfs_downloaded, pdfs_parsed,
             pipelines_started, run_result>>

VARIABLES
    dl_pc,                    \* position of the download call
    dl_force,                 \* its forceRedownload argument
    dl_max_attempts,          \* configured maximum attempt count K
    dl_file,                  \* what is at the destination path
    dl_file_at_call,          \* what was there when the call began
    dl_outcomes,              \* outcome of each attempt of the call
    dl_net_calls,             \* network calls issued by the call
    dl_rl_passes,             \* passes of the call through the rate-limit checkpoint
    dl_backoffs,              \* backoff delays inserted by the call
    dl_result,                \* "path" or "None"
    dl_error,                 \* the DownloadError of the call, if any
    dl_attempt_count,         \* attempt count recorded by the call
    dl_calls_made             \* download calls begun so far

dlVars == <<dl_pc, dl_force, dl_max_attempts, dl_file, dl_file_at_call,
            dl_outcomes, dl_net_calls, dl_rl_passes, dl_backoffs, dl_result,
            dl_error, dl_attempt_count, dl_calls_made>>

VARIABLES
    val_pc,                   \* position of PDFParserService.parse
    val_file,                 \* the file at pdf_path
    val_checks,               \* precondition checks _validate_pdf evaluated
    val_err,                  \* second component of what _validate_pdf returned
    val_raised,               \* what DoclingPDFParser.parse raised
    val_converter_calls,      \* calls of converter.convert
    val_result                \* what PDFParserService.parse returned

valVars == <<val_pc, val_file, val_checks, val_err, val_raised,
             val_converter_calls, val_result>>

VARIABLES
    feed_pc,                  \* position of _parse_response
    feed_entries,             \* the entries of the response, in document order
    feed_papers,              \* the list "papers" of _parse_response
    feed_wellformed,          \* whether ET.fromstring accepts the response text
    feed_raised               \* the exception _parse_response ended with

feedVars == <<feed_pc, feed_entries, feed_papers, feed_wellformed, feed_raised>>

VARIABLES
    fp_pc,                    \* position of a fetch_papers call
    fp_max_results,           \* its max_results argument (0 = None)
    fp_settings_max_results,  \* ArxivSettings.max_results
    fp_from_date,             \* whether from_date is given
    fp_to_date,               \* whether to_date is given
    fp_params,                \* the query parameters of the request
    fp_http,                  \* what the HTTP request ended with
    fp_result                 \* what the caller of fetch_papers receives

fpVars == <<fp_pc, fp_max_results, fp_settings_max_results, fp_from_date,
            fp_to_date, fp_params, fp_http, fp_result>>

VARIABLES
    cancel_requested          \* the task awaiting asyncio.gather was cancelled

cancelVars == <<cancel_requested>>
extVars == <<runVars, dlVars, valVars, feedVars, fpVars, cancelVars>>
vars == <<pipeVars, rateVars, extVars>>

(* ---- values ---- *)
NoTime == -1
rate_limit_delay == 3

Tasks == 1..Len(papers)
Callers == 1..NumCallers

Pending == [kind |-> "pending", download_success |-> FALSE, parsed_paper |-> "None"]
Returned(ds, pp) == [kind |-> "return", download_success |-> ds, parsed_paper |-> pp]
Raised == [kind |-> "raise", download_success |-> FALSE, parsed_paper |-> "None"]

Terminal == {"Parsed", "ParseFailed", "DownloadFailed", "PipelineError"}

\* what download_pdf(paper, False) can do: return a path, return None, raise
DownloadPdfResults == {"path", "None", "raise"}

\* what DoclingPDFParser.parse can do: return PdfContent, raise
\* PDFValidationError (a precondition failed), raise from the converter
DoclingResults == {"content", "PDFValidationError", "ConversionError"}

(* ---- asyncio.Semaphore ---- *)
\* variant: acquire never waits
LockedNever(value) == FALSE
\* variant: release gives no slot back
ReleaseLost(value) == value
Locked(value) == value = 0
Acquire(value) == value - 1
Release(value) == value + 1

(* ---- PDFParserService.parse: every exception is swallowed ---- *)
ServiceParse(d) == IF d = "content" THEN "content" ELSE "None"

(* ---- the typed outcome a task result stands for ---- *)
Outcome(r) ==
    IF r.kind = "raise" THEN "PipelineError"
    ELSE IF ~r.download_success THEN "DownloadFailed"
    ELSE IF r.parsed_paper = "None" THEN "ParseFailed"
    ELSE "Parsed"

(* ---- _download_parse_pipeline ---- *)
\* variant: no early return after a failed download
AfterDownloadFallThrough(p) == "Downloaded"
\* variant: a failed parse is tried again
AfterParseRetry(c) == IF c # "None" THEN "Parsed" ELSE "Downloaded"
\* variant: the download slot is kept when the block is left
DownloadBlockExitKeep(value, holders, i) == [value |-> value, holders |-> holders]
\* variant: an exception in one task cancels the tasks still running
OnPipelineExceptionCancelAll(pcs, i) ==
    [j \in DOMAIN pcs |-> IF j = i THEN "PipelineError"
                          ELSE IF pcs[j] \in Terminal THEN pcs[j] ELSE "Cancelled"]
\* where the task goes when download_pdf has returned p
AfterDownload(p) == IF p # "None" THEN "Downloaded" ELSE "DownloadFailed"

\* where the task goes when pdf_parser.parse has returned c
AfterParse(c) == IF c # "None" THEN "Parsed" ELSE "ParseFailed"

\* leaving the "async with download_semaphore" block, normally, by the early
\* return or by an exception: the slot is given back
DownloadBlockExit(value, holders, i) ==
    [value |-> Release(value), holders |-> holders \ {i}]

\* an exception in one task: the task alone ends, with the exception
OnPipelineException(pcs, i) == [pcs EXCEPT ![i] = "PipelineError"]

\* variant: the flag is set whatever download_pdf returned
DownloadSuccessAlways(p) == TRUE
\* "if pdf_path: download_success = True"
DownloadSuccess(p) == p # "None"

\* variant: the download block waits on the semaphore of the parse block
DownloadStageSemaphoreShared(dsem, psem) == psem
\* "async with download_semaphore": the semaphore the download block waits on
DownloadStageSemaphore(dsem, psem) == dsem

\* "async with parse_semaphore": the semaphore the parse block waits on
ParseStageSemaphore(dsem, psem) == psem

AcquireDownload(i) ==
    /\ pc[i] = "Fetched"
    /\ ~Locked(DownloadStageSemaphore(download_semaphore, parse_semaphore))
    /\ download_semaphore' = Acquire(download_semaphore)
    /\ dl_holders' = dl_holders \cup {i}
    /\ pc' = [pc EXCEPT ![i] = "Downloading"]
    /\ UNCHANGED <<papers, max_concurrent_downloads, max_concurrent_parsing,
                   parse_semaphore, pdf_path, download_success, pdf_content,
                   parser_raised, parser_calls, parse_holders, task_result,
                   orch, pipeline_results, folded, errors, rateVars, extVars>>

DownloadReturn(i, p) ==
    /\ pc[i] = "Downloading"
    /\ p \in DownloadPdfResults \ {"raise"}
    /\ pdf_path' = [pdf_path EXCEPT ![i] = p]
    /\ download_success' = [download_success EXCEPT ![i] = DownloadSuccess(p)]
    /\ download_semaphore' = DownloadBlockExit(download_semaphore, dl_holders, i).value
    /\ dl_holders' = DownloadBlockExit(download_semaphore, dl_holders, i).holders
    /\ pc' = [pc EXCEPT ![i] = AfterDownload(p)]
    /\ task_result' = IF AfterDownload(p) = "DownloadFailed"
                      THEN [task_result EXCEPT ![i] = Returned(FALSE, "None")]
                      ELSE task_result
    /\ UNCHANGED <<papers, max_concurrent_downloads, max_concurrent_parsing,
                   parse_semaphore, pdf_content, parser_raised, parser_calls,
                   parse_holders, orch, pipeline_results, folded, errors,
                   rateVars, extVars>>

DownloadRaise(i) ==
    /\ pc[i] = "Downloading"
    /\ download_semaphore' = DownloadBlockExit(download_semaphore, dl_holders, i).value
    /\ dl_holders' = DownloadBlockExit(download_semaphore, dl_holders, i).holders
    /\ pc' = OnPipelineException(pc, i)
    /\ task_result' = [task_result EXCEPT ![i] = Raised]
    /\ UNCHANGED <<papers, max_concurrent_downloads, max_concurrent_parsing,
                   parse_semaphore, pdf_path, download_success, pdf_content,
                   parser_raised, parser_calls, parse_holders, orch,
                   pipeline_results, folded, errors, rateVars, extVars>>

AcquireParse(i) ==
    /\ pc[i] = "Downloaded"
    /\ ~Locked(ParseStageSemaphore(download_semaphore, parse_semaphore))
    /\ parse_semaphore' = Acquire(parse_semaphore)
    /\ parse_holders' = parse_holders \cup {i}
    /\ parser_calls' = [parser_calls EXCEPT ![i] = @ + 1]
    /\ pc' = [pc EXCEPT ![i] = "Parsing"]
    /\ UNCHANGED <<papers, max_concurrent_downloads, max_concurrent_parsing,
                   download_semaphore, pdf_path, download_success, pdf_content,
                   parser_raised, dl_holders, task_result, orch,
                   pipeline_results, folded, errors, rateVars, extVars>>

ParseReturn(i, d) ==
    /\ pc[i] = "Parsing"
    /\ parser_raised' = [parser_raised EXCEPT ![i] = d]
    /\ pdf_content' = [pdf_content EXCEPT ![i] = ServiceParse(d)]
    /\ parse_semaphore' = Release(parse_semaphore)
    /\ parse_holders' = parse_holders \ {i}
    /\ pc' = [pc EXCEPT ![i] = AfterParse(ServiceParse(d))]
    /\ task_result' = IF AfterParse(ServiceParse(d)) \in Terminal
                      THEN [task_result EXCEPT ![i] =
                               Returned(download_success[i],
                                        IF ServiceParse(d) # "None"
                                        THEN "ParsedPaper" ELSE "None")]
                      ELSE task_result
    /\ UNCHANGED <<papers, max_concurrent_downloads, max_concurrent_parsing,
                   download_semaphore, pdf_path, download_success, parser_calls,
                   dl_holders, orch, pipeline_results, folded, errors, rateVars, extVars>>

(* ---- _batch_process_pdfs ---- *)
\* variant: gather returns as soon as one task has finished
GatherReadyFirst == Tasks = {} \/ \E i \in Tasks : pc[i] \in Terminal
\* variant: every result is paired with the first paper
ZipPairFirst(k) == [paper |-> papers[1], result |-> pipeline_results[k]]
\* asyncio.gather returns when every task has returned or raised
GatherReady == \A i \in Tasks : pc[i] \in Terminal

\* the k-th pair of zip(papers, pipeline_results)
ZipPair(k) == [paper |-> papers[k], result |-> pipeline_results[k]]

GatherReturn ==
    /\ orch = "gather"
    /\ GatherReady
    /\ pipeline_results' = [i \in Tasks |-> task_result[i]]
    /\ orch' = "fold"
    /\ UNCHANGED <<papers, max_concurrent_downloads, max_concurrent_parsing,
                   download_semaphore, parse_semaphore, pc, pdf_path,
                   download_success, pdf_content, parser_raised, parser_calls,
                   dl_holders, parse_holders, task_result, folded, errors,
                   rateVars, extVars>>

\* one iteration of the result loop: both branches are "...", nothing is recorded
FoldStep ==
    /\ orch = "fold"
    /\ Len(folded) < Len(pipeline_results)
    /\ folded' = Append(folded, ZipPair(Len(folded) + 1))
    /\ errors' = errors
    /\ UNCHANGED <<papers, max_concurrent_downloads, max_concurrent_parsing,
                   download_semaphore, parse_semaphore, pc, pdf_path,
                   download_success, pdf_content, parser_raised, parser_calls,
                   dl_holders, parse_holders, task_result, orch,
                   pipeline_results, rateVars, extVars>>

FoldDone ==
    /\ orch = "fold"
    /\ Len(folded) = Len(pipeline_results)
    /\ orch' = "done"
    /\ UNCHANGED <<papers, max_concurrent_downloads, max_concurrent_parsing,
                   download_semaphore, parse_semaphore, pc, pdf_path,
                   download_success, pdf_content, parser_raised, parser_calls,
                   dl_holders, parse_holders, task_result, pipeline_results,
                   folded, errors, rateVars, extVars>>

(* ---- cancellation of the task that awaits asyncio.gather ---- *)
Cancelled == [kind |-> "cancelled", download_success |-> FALSE, parsed_paper |-> "None"]
Finished == Terminal \cup {"Cancelled"}

\* variant: the except clause of the pipeline catches the cancellation too
OnCancelCaught(stage) == "PipelineError"
\* CancelledError thrown into a pipeline at its await: it is not an
\* Exception, "except Exception" lets it through and the task ends cancelled
OnCancel(stage) == "Cancelled"

\* the task awaiting gather is cancelled: gather cancels every child that is
\* not done
CancelRun ==
    /\ orch = "gather"
    /\ ~cancel_requested
    /\ cancel_requested' = TRUE
    /\ UNCHANGED <<pipeVars, rateVars, runVars, dlVars, valVars, feedVars, fpVars>>

\* a child that is not done gets CancelledError where it waits: the
\* "async with" block it is in gives its slot back and the task ends
TaskCancelled(i) ==
    /\ cancel_requested
    /\ pc[i] \notin Finished
    /\ pc' = [pc EXCEPT ![i] = OnCancel(pc[i])]
    /\ task_result' = [task_result EXCEPT ![i] =
                          IF OnCancel(pc[i]) = "Cancelled" THEN Cancelled ELSE Raised]
    /\ download_semaphore' = IF i \in dl_holders
                             THEN DownloadBlockExit(download_semaphore, dl_holders, i).value
                             ELSE download_semaphore
    /\ dl_holders' = dl_holders \ {i}
    /\ parse_semaphore' = IF i \in parse_holders THEN Release(parse_semaphore)
                          ELSE parse_semaphore
    /\ parse_holders' = parse_holders \ {i}
    /\ UNCHANGED <<papers, max_concurrent_downloads, max_concurrent_parsing,
                   pdf_path, download_success, pdf_content, parser_raised,
                   parser_calls, orch, pipeline_results, folded, errors,
                   rateVars, extVars>>

\* every child is done: the cancelled gather raises CancelledError in
\* _batch_process_pdfs, which is left without a result list
GatherCancelled ==
    /\ orch = "gather"
    /\ cancel_requested
    /\ \A i \in Tasks : pc[i] \in Finished
    /\ orch' = "cancelled"
    /\ UNCHANGED <<papers, max_concurrent_downloads, max_concurrent_parsing,
                   download_semaphore, parse_semaphore, pc, pdf_path,
                   download_success, pdf_content, parser_raised, parser_calls,
                   dl_holders, parse_holders, task_result, pipeline_results,
                   folded, errors, rateVars, extVars>>

(* ---- ArxivClient.fetch_papers: rate limiting ---- *)
\* the wait computed from the last request time read at time now
SleepUntil(last, now) == now + (rate_limit_delay - (now - last))

\* "if self._last_request_time is not None: ... if time_since_last < delay"
MustSleep(last, now) == last # NoTime /\ now - last < rate_limit_delay

\* a caller enters fetch_papers: it reads the last request time and either
\* goes to sleep or, with no await in between, stamps the time and requests
FetchBegin(c) ==
    /\ rl_pc[c] = "idle"
    /\ IF MustSleep(last_request_time, clock)
       THEN /\ rl_pc' = [rl_pc EXCEPT ![c] = "sleeping"]
            /\ wake' = [wake EXCEPT ![c] = SleepUntil(last_request_time, clock)]
            /\ UNCHANGED <<last_request_time, calls>>
       ELSE /\ rl_pc' = [rl_pc EXCEPT ![c] = "requesting"]
            /\ last_request_time' = clock
            /\ calls' = Append(calls, clock)
            /\ UNCHANGED wake
    /\ UNCHANGED <<clock, pipeVars, extVars>>

\* asyncio.sleep is over: the time is stamped and the request is issued
FetchWake(c) ==
    /\ rl_pc[c] = "sleeping"
    /\ clock >= wake[c]
    /\ rl_pc' = [rl_pc EXCEPT ![c] = "requesting"]
    /\ last_request_time' = clock
    /\ calls' = Append(calls, clock)
    /\ UNCHANGED <<clock, wake, pipeVars, extVars>>

\* the HTTP response arrives (or the request fails): fetch_papers is left
FetchResponse(c) ==
    /\ rl_pc[c] = "requesting"
    /\ rl_pc' = [rl_pc EXCEPT ![c] = "returned"]
    /\ UNCHANGED <<clock, last_request_time, wake, calls, pipeVars, extVars>>

Tick ==
    /\ clock < MaxClock
    /\ clock' = clock + 1
    /\ UNCHANGED <<last_request_time, rl_pc, wake, calls, pipeVars, extVars>>

(* ---- MetadataFetcher.fetch_and_process_papers ---- *)
NoArg == 0

\* the exceptions the awaited fetch_papers call can end with: the three
\* fetch_papers raises itself, and the TypeError of a call it does not accept
FetchErrors == {"ArxivAPITimeoutError", "ArxivAPIException", "ArxivParseError", "TypeError"}

\* "except Exception: pass": the exception is dropped, the function falls off
\* its end and the caller receives None
OnFetchException(e) == "None"

\* the rest of the try block once fetch_papers has returned n papers: the
\* stat is returned for an empty list only; "if process_pdfs: ..." does
\* nothing and the function falls off its end
AfterFetch(n) == IF n = 0 THEN "ProcessingStat" ELSE "None"

\* ProcessingStat(): the counters of a new stat
ProcessingStatDefaults == [papers_fetched |-> 0, pdfs_downloaded |-> 0, pdfs_parsed |-> 0]

\* the counters of processing_stat
Stat == [papers_fetched |-> papers_fetched, pdfs_downloaded |-> pdfs_downloaded,
         pdfs_parsed |-> pdfs_parsed]

\* variant: the length is stored in the wrong counter
CountFetchedWrongField(stat, n) == [stat EXCEPT !.pdfs_downloaded = n]
\* "processing_stat.papers_fetched = len(arxiv_papers)"
CountFetched(stat, n) == [stat EXCEPT !.papers_fetched = n]

\* line 72-78: the stat is created and fetch_papers is awaited
RunCallFetch ==
    /\ run_pc = "call"
    /\ run_pc' = "fetching"
    /\ papers_fetched' = ProcessingStatDefaults.papers_fetched
    /\ pdfs_downloaded' = ProcessingStatDefaults.pdfs_downloaded
    /\ pdfs_parsed' = ProcessingStatDefaults.pdfs_parsed
    /\ UNCHANGED <<arg_max_results, arg_process_pdfs, arg_store_to_db,
                   fetch_raised, pipelines_started, run_result, pipeVars,
                   rateVars, dlVars, valVars, feedVars, fpVars, cancelVars>>

\* fetch_papers returns n papers (at most max_results when it is given)
RunFetchReturn(n) ==
    /\ run_pc = "fetching"
    /\ arg_max_results # NoArg => n <= arg_max_results
    /\ papers_fetched' = CountFetched(Stat, n).papers_fetched
    /\ pdfs_downloaded' = CountFetched(Stat, n).pdfs_downloaded
    /\ pdfs_parsed' = CountFetched(Stat, n).pdfs_parsed
    /\ run_result' = AfterFetch(n)
    /\ run_pc' = "returned"
    /\ UNCHANGED <<arg_max_results, arg_process_pdfs, arg_store_to_db,
                   fetch_raised, pipelines_started, pipeVars, rateVars,
                   dlVars, valVars, feedVars, fpVars, cancelVars>>

\* fetch_papers raises e
RunFetchRaise(e) ==
    /\ run_pc = "fetching"
    /\ fetch_raised' = e
    /\ run_result' = OnFetchException(e)
    /\ run_pc' = "returned"
    /\ UNCHANGED <<arg_max_results, arg_process_pdfs, arg_store_to_db,
                   papers_fetched, pdfs_downloaded, pdfs_parsed,
                   pipelines_started, pipeVars, rateVars,
                   dlVars, valVars, feedVars, fpVars, cancelVars>>

(* ---- the artifact downloader: download(record, destination, force) ---- *)
DefaultMaxAttempts == 3
BaseDelay == 5

NoError == [kind |-> "none", attempts |-> 0]
DownloadError(n) == [kind |-> "DownloadError", attempts |-> n]

\* what one attempt can end with
AttemptOutcomes == {"ok", "timeout", "http_error", "io_error"}

\* variant: the cache is never consulted
CacheHitNever(force, file) == FALSE
\* the call is served from the cache
CacheHit(force, file) == ~force /\ file # "absent"

\* variant: every failure is retried
RetryableAny(o) == o # "ok"
\* only a timeout or an HTTP-level failure is retried
Retryable(o) == o \in {"timeout", "http_error"}

\* variant: the delay does not grow
BackoffFlat(n) == BaseDelay
\* the delay inserted after failed attempt number n
Backoff(n) == BaseDelay * n

\* variant: the attempts are counted from zero
AttemptCountFromZero(outcomes) == Len(outcomes) - 1
\* the attempt count a call records
AttemptCount(outcomes) == Len(outcomes)

\* variant: the partial file is left behind
AfterFailureKeep(file) == file
\* what is at the destination once the call has failed: nothing
AfterFailure(file) == "absent"

\* the call begins: it returns the cached path, or goes to its first attempt
DlCall(force) ==
    /\ dl_pc \in {"idle", "done"}
    /\ dl_calls_made < MaxDownloadCalls
    /\ dl_calls_made' = dl_calls_made + 1
    /\ dl_force' = force
    /\ dl_file_at_call' = dl_file
    /\ dl_outcomes' = << >>
    /\ dl_net_calls' = 0
    /\ dl_rl_passes' = 0
    /\ dl_backoffs' = << >>
    /\ dl_error' = NoError
    /\ dl_attempt_count' = 0
    /\ IF CacheHit(force, dl_file)
       THEN dl_pc' = "done" /\ dl_result' = "path"
       ELSE dl_pc' = "checkpoint" /\ dl_result' = "pending"
    /\ UNCHANGED <<dl_max_attempts, dl_file, pipeVars, rateVars, runVars, valVars, feedVars, fpVars, cancelVars>>

\* an attempt passes the shared rate-limit checkpoint
DlCheckpoint ==
    /\ dl_pc = "checkpoint"
    /\ dl_rl_passes' = dl_rl_passes + 1
    /\ dl_pc' = "request"
    /\ UNCHANGED <<dl_force, dl_max_attempts, dl_file, dl_file_at_call,
                   dl_outcomes, dl_net_calls, dl_backoffs, dl_result, dl_error,
                   dl_attempt_count, dl_calls_made, pipeVars, rateVars, runVars, valVars, feedVars, fpVars, cancelVars>>

\* the attempt issues its request, streams to the destination and ends with o
DlAttempt(o) ==
    /\ dl_pc = "request"
    /\ LET outcomes == Append(dl_outcomes, o) IN
       /\ dl_outcomes' = outcomes
       /\ dl_net_calls' = dl_net_calls + 1
       /\ IF o = "ok"
          THEN /\ dl_file' = "complete"
               /\ dl_result' = "path"
               /\ dl_attempt_count' = AttemptCount(outcomes)
               /\ dl_pc' = "done"
               /\ UNCHANGED <<dl_error, dl_backoffs>>
          ELSE IF Retryable(o) /\ Len(outcomes) < dl_max_attempts
          THEN /\ dl_file' = "partial"
               /\ dl_backoffs' = Append(dl_backoffs, Backoff(Len(outcomes)))
               /\ dl_pc' = "backoff"
               /\ UNCHANGED <<dl_result, dl_error, dl_attempt_count>>
          ELSE /\ dl_file' = AfterFailure("partial")
               /\ dl_result' = "None"
               /\ dl_error' = DownloadError(AttemptCount(outcomes))
               /\ dl_attempt_count' = AttemptCount(outcomes)
               /\ dl_pc' = "done"
               /\ UNCHANGED dl_backoffs
    /\ UNCHANGED <<dl_force, dl_max_attempts, dl_file_at_call, dl_rl_passes,
                   dl_calls_made, pipeVars, rateVars, runVars, valVars, feedVars, fpVars, cancelVars>>

\* the backoff is over: the next attempt goes to the checkpoint
DlBackoffOver ==
    /\ dl_pc = "backoff"
    /\ dl_pc' = "checkpoint"
    /\ UNCHANGED <<dl_force, dl_max_attempts, dl_file, dl_file_at_call,
                   dl_outcomes, dl_net_calls, dl_rl_passes, dl_backoffs,
                   dl_result, dl_error, dl_attempt_count, dl_calls_made,
                   pipeVars, rateVars, runVars, valVars, feedVars, fpVars, cancelVars>>

(* ---- PDFParser._validate_pdf, PDFParser.parse, PDFParserService.parse ---- *)
max_pages == 30
max_file_size_mb == 20
max_file_size_bytes == max_file_size_mb * 1024 * 1024

\* the files a parse call can find: nothing at the path, or a file with a
\* size, a header that is or is not "%PDF-", a page count that pdfium can or
\* cannot read, and content the converter can or cannot convert
HeaderLen == 5
FileSizes == {0, HeaderLen - 1, HeaderLen, max_file_size_bytes, max_file_size_bytes + 1}
PageCounts == {0, 1, max_pages, max_pages + 1}
NoFile == [exists |-> FALSE, size |-> 0, header |-> FALSE, reader_fails |-> FALSE,
           pages |-> 0, convert_fails |-> FALSE]
Files == {NoFile} \cup
         {f \in [exists : {TRUE}, size : FileSizes, header : BOOLEAN,
                 reader_fails : BOOLEAN, pages : PageCounts,
                 convert_fails : BOOLEAN] :
             /\ f.header => f.size >= HeaderLen
             /\ f.reader_fails => f.pages = 0}

Rejected(err, checks) == [valid |-> FALSE, err |-> err, checks |-> checks]

\* variant: a check that raises counts as passed
OnValidateExceptionValid(checks) == [valid |-> TRUE, err |-> "None", checks |-> checks]
\* "except Exception as e: ... return (False, e)"
OnValidateException(checks) == Rejected("Exception", checks)

\* variant: the header is looked at before the size limit
ValidatePdfHeaderFirst(f) ==
    IF ~f.exists THEN Rejected("NotExist", <<"exists">>)
    ELSE IF f.size = 0 THEN Rejected("EmptyFile", <<"exists", "empty">>)
    ELSE IF ~f.header
         THEN Rejected("FileMissingPDFHeader", <<"exists", "empty", "header">>)
    ELSE IF f.size > max_file_size_bytes
         THEN Rejected("FileSizeOutLimits", <<"exists", "empty", "header", "size">>)
    ELSE IF f.reader_fails
         THEN OnValidateException(<<"exists", "empty", "header", "size", "pages">>)
    ELSE IF f.pages > max_pages
         THEN Rejected("FilePageOutLimits", <<"exists", "empty", "header", "size", "pages">>)
    ELSE [valid |-> TRUE, err |-> "None",
          checks |-> <<"exists", "empty", "header", "size", "pages">>]

\* _validate_pdf: the checks in the order of the code, each return ending it;
\* an exception raised on the way (pdfium cannot read the file) is caught and
\* returned as the error
ValidatePdf(f) ==
    IF ~f.exists THEN Rejected("NotExist", <<"exists">>)
    ELSE IF f.size = 0 THEN Rejected("EmptyFile", <<"exists", "empty">>)
    ELSE IF f.size > max_file_size_bytes
         THEN Rejected("FileSizeOutLimits", <<"exists", "empty", "size">>)
    ELSE IF ~f.header
         THEN Rejected("FileMissingPDFHeader", <<"exists", "empty", "size", "header">>)
    ELSE IF f.reader_fails
         THEN OnValidateException(<<"exists", "empty", "size", "header", "pages">>)
    ELSE IF f.pages > max_pages
         THEN Rejected("FilePageOutLimits", <<"exists", "empty", "size", "header", "pages">>)
    ELSE [valid |-> TRUE, err |-> "None",
          checks |-> <<"exists", "empty", "size", "header", "pages">>]

\* variant: the converter is called whatever the validation said
MayConvertAlways(valid) == TRUE
\* "if not valid: raise PDFValidationError(err)"
MayConvert(valid) == valid

\* PDFParser.parse, lines 47-50: the validation and the raise
ParseValidate ==
    /\ val_pc = "validate"
    /\ val_checks' = ValidatePdf(val_file).checks
    /\ val_err' = ValidatePdf(val_file).err
    /\ IF MayConvert(ValidatePdf(val_file).valid)
       THEN val_pc' = "convert" /\ UNCHANGED val_raised
       ELSE val_pc' = "raised" /\ val_raised' = "PDFValidationError"
    /\ UNCHANGED <<val_file, val_converter_calls, val_result, pipeVars,
                   rateVars, runVars, dlVars, feedVars, fpVars, cancelVars>>

\* PDFParser.parse, lines 53-86: the converter is called and the content built
ParseConvert ==
    /\ val_pc = "convert"
    /\ val_converter_calls' = val_converter_calls + 1
    /\ IF val_file.exists /\ ~val_file.convert_fails
       THEN val_pc' = "content" /\ UNCHANGED val_raised
       ELSE val_pc' = "raised" /\ val_raised' = "ConversionError"
    /\ UNCHANGED <<val_file, val_checks, val_err, val_result, pipeVars,
                   rateVars, runVars, dlVars, feedVars, fpVars, cancelVars>>

\* PDFParserService.parse: the content is returned, an exception is swallowed
ServiceReturn ==
    /\ val_pc \in {"content", "raised"}
    /\ val_result' = ServiceParse(IF val_pc = "content" THEN "content" ELSE val_raised)
    /\ val_pc' = "returned"
    /\ UNCHANGED <<val_file, val_checks, val_err, val_raised,
                   val_converter_calls, pipeVars, rateVars, runVars, dlVars, feedVars, fpVars, cancelVars>>

(* ---- ArxivClient._parse_response, _parse_single_entry, _get_arxiv_id ---- *)
\* texts are sequences of characters; an entry has or has not an <id> with
\* text and a <title> with text
Chars == {"/", "x"}
RECURSIVE TextsOfLen(_)
TextsOfLen(n) ==
    IF n = 0 THEN {<< >>}
    ELSE {Append(t, c) : t \in TextsOfLen(n - 1), c \in Chars}
IdTexts == UNION {TextsOfLen(n) : n \in 1..MaxIdLen}

\* an entry also has its <link> elements, each with a type and an href, and
\* may make _parse_single_entry raise
HttpArxiv == <<"http://", "arxiv.org", "/">>
HttpsArxiv == <<"https://", "arxiv.org", "/">>
Hrefs == { << >>,
           <<"http://", "arxiv.org", "/", "pdf">>,
           <<"https://", "arxiv.org", "/", "pdf">>,
           <<"http://", "export.arxiv.org", "/", "pdf">>,
           <<"http://", "example.org", "/", "pdf">>,
           <<"http://", "arxiv.org">>,
           <<"http://", "arxiv.org", "/", "http://", "arxiv.org", "/">> }
Links == [type : {"application/pdf", "text/html"}, href : Hrefs]
LinkLists == UNION {[1..n -> Links] : n \in 0..MaxLinks}

NoIdEntries == [has_id : {FALSE}, id_text : {<< >>}, has_title : BOOLEAN,
                raises : {FALSE}, links : {<< >>}]
FeedEntries == NoIdEntries \cup [has_id : {TRUE}, id_text : IdTexts, has_title : BOOLEAN,
                                 raises : {FALSE}, links : {<< >>}]
RaisingEntries == {[has_id |-> h, id_text |-> IF h THEN <<"x">> ELSE << >>,
                    has_title |-> TRUE, raises |-> r, links |-> << >>] :
                      h \in BOOLEAN, r \in BOOLEAN}
LinkEntries == {[has_id |-> TRUE, id_text |-> <<"x">>, has_title |-> TRUE,
                 raises |-> FALSE, links |-> ls] : ls \in LinkLists}

\* text.split("/")[-1]: what follows the last "/"
LastSegment(t) ==
    LET slashes == {k \in 1..Len(t) : t[k] = "/"}
        last == IF slashes = {} THEN 0
                ELSE CHOOSE k \in slashes : \A j \in slashes : j <= k
    IN SubSeq(t, last + 1, Len(t))

\* _get_text: the stripped text of the element, "" when it is absent
GetTitle(e) == IF e.has_title THEN <<"t">> ELSE << >>

\* str.startswith and str.replace (every occurrence, left to right)
StartsWith(u, pre) == Len(u) >= Len(pre) /\ SubSeq(u, 1, Len(pre)) = pre
RECURSIVE Replace(_, _, _)
Replace(u, old, new) ==
    IF u = << >> THEN << >>
    ELSE IF StartsWith(u, old)
         THEN new \o Replace(SubSeq(u, Len(old) + 1, Len(u)), old, new)
    ELSE <<Head(u)>> \o Replace(Tail(u), old, new)

\* variant: the url is returned as it is
UpgradeSchemeNever(url) == url
\* "if url.startswith("http://arxiv.org/"): url = url.replace(...)"
UpgradeScheme(url) ==
    IF StartsWith(url, HttpArxiv) THEN Replace(url, HttpArxiv, HttpsArxiv) ELSE url

\* _get_arxiv_pdf_url: the href of the first link of type application/pdf,
\* "" when there is none
GetArxivPdfUrl(links) ==
    LET pdfs == {k \in 1..Len(links) : links[k].type = "application/pdf"}
    IN IF pdfs = {} THEN << >>
       ELSE UpgradeScheme(links[CHOOSE k \in pdfs : \A j \in pdfs : k <= j].href)

\* variant: the exception of one entry leaves _parse_single_entry
OnEntryExceptionPropagate(e) == "raise"
\* "except Exception as e: ... return None"
OnEntryException(e) == "None"

\* _parse_single_entry: None for an entry that raises or has no identifier,
\* else the paper
ParseSingleEntry(e, k) ==
    IF e.raises THEN << >>
    ELSE IF ~e.has_id THEN << >>
    ELSE << [arxiv_id |-> LastSegment(e.id_text), title |-> GetTitle(e),
             pdf_url |-> GetArxivPdfUrl(e.links), entry |-> k] >>

\* "if paper: papers.append(paper)"
Collect(ps, new) == ps \o new

\* ET.fromstring rejects the text: _parse_response raises ArxivParseError
FeedFromStringRaise ==
    /\ feed_pc = 1
    /\ ~feed_wellformed
    /\ feed_raised' = "ArxivParseError"
    /\ feed_pc' = 0
    /\ UNCHANGED <<feed_entries, feed_papers, feed_wellformed, pipeVars,
                   rateVars, runVars, dlVars, valVars, fpVars, cancelVars>>

\* one iteration of "for entry in entries"; an exception that left
\* _parse_single_entry would end _parse_response with ArxivParseError
FeedParseEntry ==
    /\ feed_pc \in 1..Len(feed_entries)
    /\ feed_wellformed
    /\ IF feed_entries[feed_pc].raises /\ OnEntryException(feed_entries[feed_pc]) = "raise"
       THEN /\ feed_raised' = "ArxivParseError"
            /\ feed_pc' = 0
            /\ UNCHANGED feed_papers
       ELSE /\ feed_papers' = Collect(feed_papers,
                                      ParseSingleEntry(feed_entries[feed_pc], feed_pc))
            /\ feed_pc' = feed_pc + 1
            /\ UNCHANGED feed_raised
    /\ UNCHANGED <<feed_entries, feed_wellformed, pipeVars, rateVars, runVars,
                   dlVars, valVars, fpVars, cancelVars>>

\* "return papers"
FeedReturn ==
    /\ feed_pc = Len(feed_entries) + 1
    /\ feed_wellformed
    /\ feed_pc' = 0
    /\ UNCHANGED <<feed_entries, feed_papers, feed_wellformed, feed_raised,
                   pipeVars, rateVars, runVars, dlVars, valVars, fpVars, cancelVars>>

(* ---- ArxivClient.fetch_papers: the request and the error mapping ---- *)
UpstreamCeiling == 2000
settings_max_results == 100

NoMaxResults == [given |-> FALSE, value |-> 0]
MaxResultsArg(n) == [given |-> TRUE, value |-> n]
MaxResultsArgs == {0, 1, UpstreamCeiling - 1, UpstreamCeiling, UpstreamCeiling + 1}
NoParams == [search_query |-> << >>, max_results |-> 0]

Min(a, b) == IF a <= b THEN a ELSE b

\* "if max_results is None: max_results = self.max_results"
EffectiveMaxResults(arg, default) == IF arg.given THEN arg.value ELSE default

\* variant: the requested number is sent as it is
ClampMaxResultsNone(n) == n
\* "max_results": min(max_results, 2000)
ClampMaxResults(n) == Min(n, UpstreamCeiling)

\* the category filter, and the date range when both dates are given
SearchQuery(from, to) ==
    IF from /\ to THEN <<"cat", "AND", "submittedDate">> ELSE <<"cat">>

\* what "await client.get(url); response.raise_for_status()" can end with:
\* a 2xx response, or an httpx exception
HttpOutcomes == {"response", "TimeoutException", "HTTPStatusError", "ConnectError"}

\* the except clauses of fetch_papers, in their order: exc is the exception
\* raised inside the try block
FetchPapersRaises(exc) ==
    IF exc = "TimeoutException" THEN "ArxivAPITimeoutError"
    ELSE IF exc = "HTTPStatusError" THEN "ArxivAPIException"
    ELSE "ArxivAPIException"

\* lines 70-100: the parameters are built, the first call of a client does
\* not sleep, the request time is stamped and the request is awaited
FpCall ==
    /\ fp_pc = "call"
    /\ ~MustSleep(last_request_time, clock)
    /\ fp_params' = [search_query |-> SearchQuery(fp_from_date, fp_to_date),
                     max_results |-> ClampMaxResults(
                         EffectiveMaxResults(fp_max_results, fp_settings_max_results))]
    /\ last_request_time' = clock
    /\ calls' = Append(calls, clock)
    /\ fp_pc' = "requesting"
    /\ UNCHANGED <<fp_max_results, fp_settings_max_results, fp_from_date,
                   fp_to_date, fp_http, fp_result, clock, rl_pc, wake,
                   pipeVars, runVars, dlVars, valVars, feedVars, cancelVars>>

\* lines 101-105: the request ends; a response is given to _parse_response,
\* an exception goes to the except clauses
FpResponse(h) ==
    /\ fp_pc = "requesting"
    /\ fp_http' = h
    /\ IF h = "response"
       THEN /\ fp_pc' = "parsing"
            /\ feed_pc' = 1
            /\ UNCHANGED fp_result
       ELSE /\ fp_pc' = "returned"
            /\ fp_result' = FetchPapersRaises(h)
            /\ UNCHANGED feed_pc
    /\ UNCHANGED <<fp_max_results, fp_settings_max_results, fp_from_date,
                   fp_to_date, fp_params, feed_entries, feed_papers,
                   feed_wellformed, feed_raised, pipeVars, rateVars, runVars,
                   dlVars, valVars, cancelVars>>

\* lines 105-117: _parse_response is over; its list is returned, its
\* exception goes to the except clauses
FpReturn ==
    /\ fp_pc = "parsing"
    /\ feed_pc = 0
    /\ fp_result' = IF feed_raised = "none" THEN "papers"
                    ELSE FetchPapersRaises(feed_raised)
    /\ fp_pc' = "returned"
    /\ UNCHANGED <<fp_max_results, fp_settings_max_results, fp_from_date,
                   fp_to_date, fp_params, fp_http, pipeVars, rateVars, runVars,
                   dlVars, valVars, feedVars, cancelVars>>

(* ---- initial states ---- *)
RateIdle ==
    /\ clock = 0
    /\ last_request_time = NoTime
    /\ rl_pc = [c \in Callers |-> "idle"]
    /\ wake = [c \in Callers |-> 0]
    /\ calls = << >>

RunIdle ==
    /\ run_pc = "idle"
    /\ arg_max_results = NoArg
    /\ arg_process_pdfs = TRUE
    /\ arg_store_to_db = TRUE
    /\ fetch_raised = "none"
    /\ papers_fetched = 0
    /\ pdfs_downloaded = 0
    /\ pdfs_parsed = 0
    /\ pipelines_started = 0
    /\ run_result = "pending"

DlStart(k, file) ==
    /\ dl_pc = "idle"
    /\ dl_force = FALSE
    /\ dl_max_attempts = k
    /\ dl_file = file
    /\ dl_file_at_call = file
    /\ dl_outcomes = << >>
    /\ dl_net_calls = 0
    /\ dl_rl_passes = 0
    /\ dl_backoffs = << >>
    /\ dl_result = "pending"
    /\ dl_error = NoError
    /\ dl_attempt_count = 0
    /\ dl_calls_made = 0

ValStart(f) ==
    /\ val_pc = "validate"
    /\ val_file = f
    /\ val_checks = << >>
    /\ val_err = "unset"
    /\ val_raised = "none"
    /\ val_converter_calls = 0
    /\ val_result = "unset"

FeedStart(es) ==
    /\ feed_pc = 1
    /\ feed_entries = es
    /\ feed_papers = << >>
    /\ feed_wellformed = TRUE
    /\ feed_raised = "none"

FpIdle ==
    /\ fp_pc = "idle"
    /\ fp_max_results = NoMaxResults
    /\ fp_settings_max_results = settings_max_results
    /\ fp_from_date = FALSE
    /\ fp_to_date = FALSE
    /\ fp_params = NoParams
    /\ fp_http = "none"
    /\ fp_result = "pending"

CancelIdle == cancel_requested = FALSE

ExtIdle ==
    /\ RunIdle
    /\ DlStart(DefaultMaxAttempts, "absent")
    /\ ValStart(NoFile)
    /\ FeedStart(<< >>)
    /\ FpIdle
    /\ CancelIdle

PipeStart(n, d, p) ==
    /\ papers = [k \in 1..n |-> k]
    /\ max_concurrent_downloads = d
    /\ max_concurrent_parsing = p
    /\ download_semaphore = d
    /\ parse_semaphore = p
    /\ pc = [i \in 1..n |-> "Fetched"]
    /\ pdf_path = [i \in 1..n |-> "unset"]
    /\ download_success = [i \in 1..n |-> FALSE]
    /\ pdf_content = [i \in 1..n |-> "unset"]
    /\ parser_raised = [i \in 1..n |-> "unset"]
    /\ parser_calls = [i \in 1..n |-> 0]
    /\ dl_holders = {}
    /\ parse_holders = {}
    /\ task_result = [i \in 1..n |-> Pending]
    /\ orch = "gather"
    /\ pipeline_results = << >>
    /\ folded = << >>
    /\ errors = << >>

Init ==
    /\ \E n \in 0..MaxPapers, d \in 1..MaxDownloads, p \in 1..MaxParsing :
          PipeStart(n, d, p)
    /\ RateIdle
    /\ ExtIdle

Next ==
    \/ \E i \in Tasks : AcquireDownload(i)
    \/ \E i \in Tasks, p \in DownloadPdfResults \ {"raise"} : DownloadReturn(i, p)
    \/ \E i \in Tasks : DownloadRaise(i)
    \/ \E i \in Tasks : AcquireParse(i)
    \/ \E i \in Tasks, d \in DoclingResults : ParseReturn(i, d)
    \/ GatherReturn
    \/ FoldStep
    \/ FoldDone

Spec == Init /\ [][Next]_vars

InitRate ==
    /\ PipeStart(0, 1, 1)
    /\ RateIdle
    /\ ExtIdle

NextRate ==
    \/ \E c \in Callers : FetchBegin(c)
    \/ \E c \in Callers : FetchWake(c)
    \/ \E c \in Callers : FetchResponse(c)
    \/ Tick

SpecRate == InitRate /\ [][NextRate]_vars

\* the event loop runs every task that is ready to run
FairSpec == Spec /\ WF_vars(Next)

(* ---- a call of fetch_and_process_papers ---- *)
InitRun ==
    /\ PipeStart(0, 1, 1)
    /\ RateIdle
    /\ run_pc = "call"
    /\ arg_max_results \in {NoArg} \cup 1..MaxPapers
    /\ arg_process_pdfs \in BOOLEAN
    /\ arg_store_to_db \in BOOLEAN
    /\ fetch_raised = "none"
    /\ papers_fetched = 0
    /\ pdfs_downloaded = 0
    /\ pdfs_parsed = 0
    /\ pipelines_started = 0
    /\ run_result = "pending"
    /\ DlStart(DefaultMaxAttempts, "absent")
    /\ ValStart(NoFile)
    /\ FeedStart(<< >>)
    /\ FpIdle
    /\ CancelIdle

NextRun ==
    \/ RunCallFetch
    \/ \E n \in 0..MaxPapers : RunFetchReturn(n)
    \/ \E e \in FetchErrors : RunFetchRaise(e)

SpecRun == InitRun /\ [][NextRun]_vars

(* ---- calls of the artifact downloader ---- *)
InitDownload ==
    /\ PipeStart(0, 1, 1)
    /\ RateIdle
    /\ RunIdle
    /\ \E k \in 1..MaxAttempts, file \in {"absent", "complete"} : DlStart(k, file)
    /\ ValStart(NoFile)
    /\ FeedStart(<< >>)
    /\ FpIdle
    /\ CancelIdle

NextDownload ==
    \/ \E force \in BOOLEAN : DlCall(force)
    \/ DlCheckpoint
    \/ \E o \in AttemptOutcomes : DlAttempt(o)
    \/ DlBackoffOver

SpecDownload == InitDownload /\ [][NextDownload]_vars

(* ---- a call of PDFParserService.parse ---- *)
InitValidate ==
    /\ PipeStart(0, 1, 1)
    /\ RateIdle
    /\ RunIdle
    /\ DlStart(DefaultMaxAttempts, "absent")
    /\ \E f \in Files : ValStart(f)
    /\ FeedStart(<< >>)
    /\ FpIdle
    /\ CancelIdle

NextValidate ==
    \/ ParseValidate
    \/ ParseConvert
    \/ ServiceReturn

SpecValidate == InitValidate /\ [][NextValidate]_vars

(* ---- a call of _parse_response on a well-formed response ---- *)
InitFeed ==
    /\ PipeStart(0, 1, 1)
    /\ RateIdle
    /\ RunIdle
    /\ DlStart(DefaultMaxAttempts, "absent")
    /\ ValStart(NoFile)
    /\ \E n \in 0..MaxEntries : \E es \in [1..n -> FeedEntries] : FeedStart(es)
    /\ FpIdle
    /\ CancelIdle

NextFeed ==
    \/ FeedParseEntry
    \/ FeedReturn

SpecFeed == InitFeed /\ [][NextFeed]_vars

(* ---- a call of fetch_papers on a new client ---- *)
InitFetch ==
    /\ PipeStart(0, 1, 1)
    /\ RateIdle
    /\ RunIdle
    /\ DlStart(DefaultMaxAttempts, "absent")
    /\ ValStart(NoFile)
    /\ feed_pc = -1
    /\ feed_papers = << >>
    /\ feed_raised = "none"
    /\ feed_wellformed \in BOOLEAN
    /\ \E n \in 0..MaxEntries : feed_entries \in [1..n -> RaisingEntries]
    /\ ~feed_wellformed => feed_entries = << >>
    /\ fp_pc = "call"
    /\ fp_max_results \in {NoMaxResults} \cup {MaxResultsArg(n) : n \in MaxResultsArgs}
    /\ fp_settings_max_results \in {settings_max_results, UpstreamCeiling + 1}
    /\ fp_from_date \in BOOLEAN
    /\ fp_to_date \in BOOLEAN
    /\ fp_params = NoParams
    /\ fp_http = "none"
    /\ fp_result = "pending"
    /\ CancelIdle

NextFetch ==
    \/ FpCall
    \/ \E h \in HttpOutcomes : FpResponse(h)
    \/ FeedFromStringRaise
    \/ FeedParseEntry
    \/ FeedReturn
    \/ FpReturn

SpecFetch == InitFetch /\ [][NextFetch]_vars

(* ---- _parse_response on entries that may raise, and on entries with links ---- *)
InitFeedRaise ==
    /\ PipeStart(0, 1, 1)
    /\ RateIdle
    /\ RunIdle
    /\ DlStart(DefaultMaxAttempts, "absent")
    /\ ValStart(NoFile)
    /\ \E n \in 0..(MaxEntries + 1) : \E es \in [1..n -> RaisingEntries] : FeedStart(es)
    /\ FpIdle
    /\ CancelIdle

SpecFeedRaise == InitFeedRaise /\ [][NextFeed]_vars

InitFeedLinks ==
    /\ PipeStart(0, 1, 1)
    /\ RateIdle
    /\ RunIdle
    /\ DlStart(DefaultMaxAttempts, "absent")
    /\ ValStart(NoFile)
    /\ \E e \in LinkEntries : FeedStart(<<e>>)
    /\ FpIdle
    /\ CancelIdle

SpecFeedLinks == InitFeedLinks /\ [][NextFeed]_vars

(* ---- the pipeline when the run may be cancelled ---- *)
NextCancel ==
    \/ \E i \in Tasks : ~cancel_requested /\ AcquireDownload(i)
    \/ \E i \in Tasks, p \in DownloadPdfResults \ {"raise"} :
          ~cancel_requested /\ DownloadReturn(i, p)
    \/ \E i \in Tasks : ~cancel_requested /\ DownloadRaise(i)
    \/ \E i \in Tasks : ~cancel_requested /\ AcquireParse(i)
    \/ \E i \in Tasks, d \in DoclingResults : ~cancel_requested /\ ParseReturn(i, d)
    \/ ~cancel_requested /\ GatherReturn
    \/ FoldStep
    \/ FoldDone
    \/ CancelRun
    \/ \E i \in Tasks : TaskCancelled(i)
    \/ GatherCancelled

SpecCancel == Init /\ [][NextCancel]_vars

\* the event loop runs every task that is ready to run
FairSpecCancel == SpecCancel /\ WF_vars(NextCancel)

(***************************************************************************)
(* Properties                                                              *)
(***************************************************************************)
InStage(st) == {i \in Tasks : pc[i] = st}
Failed == {"DownloadFailed", "ParseFailed", "PipelineError"}

\* C1: at any time the number of pipelines inside the download stage is at
\* most max_concurrent_downloads and the number of pipelines inside the
\* parse stage is at most max_concurrent_parsing.
C1_ConcurrencyBound ==
    /\ Cardinality(InStage("Downloading")) <= max_concurrent_downloads
    /\ Cardinality(InStage("Parsing")) <= max_concurrent_parsing

\* both pools are full while another pipeline waits for a download slot
C1_Witness ==
    /\ Cardinality(InStage("Downloading")) = max_concurrent_downloads
    /\ Cardinality(InStage("Parsing")) = max_concurrent_parsing
    /\ InStage("Fetched") # {}

\* C2: the step in which one pipeline fails (validation failure, download
\* failure or exception) changes neither the position nor the result of any
\* other pipeline, and once the run is over every item whose own download
\* returned a path and whose own parse returned content is Parsed.
C2_SiblingsUntouched ==
    \A i \in Tasks :
        (pc[i] \notin Failed /\ pc'[i] \in Failed) =>
            \A j \in Tasks \ {i} : pc'[j] = pc[j] /\ task_result'[j] = task_result[j]

C2_GoodItemsParsed ==
    orch = "done" =>
        \A j \in Tasks :
            (pdf_path[j] = "path" /\ parser_raised[j] = "content") =>
                /\ pc[j] = "Parsed"
                /\ Outcome(pipeline_results[j]) = "Parsed"

C2_FailureIsolation == [][C2_SiblingsUntouched]_vars /\ [](C2_GoodItemsParsed)

\* one item was rejected by validation, one raised, and a third is Parsed
C2_Witness ==
    /\ orch = "done"
    /\ \E i, j, k \in Tasks :
          /\ parser_raised[i] = "PDFValidationError" /\ pc[i] = "ParseFailed"
          /\ pc[j] = "PipelineError"
          /\ pc[k] = "Parsed" /\ Outcome(pipeline_results[k]) = "Parsed"

\* C3: any two consecutive requests issued through the shared last-request
\* checkpoint are at least rate_limit_delay apart.
C3_RateLimitRespected ==
    \A k \in 2..Len(calls) : calls[k] - calls[k - 1] >= rate_limit_delay

\* C4: a pipeline that waits for or holds a parse slot holds no download
\* slot: the download slot is given back when the download is over.
C4_DownloadSlotReleasedBeforeParse ==
    /\ \A i \in Tasks : pc[i] \in {"Downloaded", "Parsing"} \cup Terminal => i \notin dl_holders
    /\ dl_holders \cap parse_holders = {}
    /\ download_semaphore = max_concurrent_downloads - Cardinality(dl_holders)

\* an item waits for the parse slot another item holds, and the download
\* slot it gave back has been taken by a third item
C4_Witness ==
    \E i, j, k \in Tasks :
        /\ pc[i] = "Downloaded" /\ Locked(parse_semaphore)
        /\ pc[j] = "Parsing"
        /\ pc[k] = "Downloading" /\ max_concurrent_downloads = 1

\* C5: every outcome the result loop sees is the result of the one record
\* it is paired with, no record is paired twice, and when the run is over
\* every record has exactly one outcome.
C5_OutcomePerRecord ==
    /\ \A k \in 1..Len(folded) :
          /\ \E i \in Tasks : papers[i] = folded[k].paper
          /\ \A i \in Tasks : papers[i] = folded[k].paper =>
                                 folded[k].result = task_result[i]
    /\ \A k, l \in 1..Len(folded) : folded[k].paper = folded[l].paper => k = l
    /\ Len(pipeline_results) \in {0, Len(papers)}
    /\ orch = "done" =>
          \A i \in Tasks :
              Cardinality({k \in 1..Len(folded) : folded[k].paper = papers[i]}) = 1

\* the run is over with several records whose outcomes differ
C5_Witness ==
    /\ orch = "done"
    /\ Len(folded) >= 2
    /\ \E k, l \in 1..Len(folded) : folded[k].result # folded[l].result

\* C6: every pipeline ends, and ends with a result that stands for one of
\* the typed outcomes; the list gather returns holds the result of each.
C6_AllTerminated ==
    /\ orch = "done"
    /\ Len(pipeline_results) = Len(papers)
    /\ \A i \in Tasks :
          /\ pc[i] \in Terminal
          /\ pipeline_results[i].kind # "pending"
          /\ Outcome(pipeline_results[i]) = pc[i]

C7_FinalizeAfterAllTerminal ==
    orch \in {"fold", "done"} =>
        /\ \A i \in Tasks : pc[i] \in Terminal /\ pipeline_results[i] = task_result[i]
        /\ \A k \in 1..Len(folded) : folded[k].result.kind # "pending"

\* the results of several pipelines are being folded
C7_Witness ==
    /\ orch = "fold"
    /\ Len(folded) >= 1
    /\ Len(papers) >= 2

\* C8 (as claimed): an item only moves Fetched -> Downloading ->
\* {Downloaded | DownloadFailed} and Downloaded -> Parsing ->
\* {Parsed | ParseFailed}.
ClaimedTransitions ==
    { <<"Fetched", "Downloading">>, <<"Downloading", "Downloaded">>,
      <<"Downloading", "DownloadFailed">>, <<"Downloaded", "Parsing">>,
      <<"Parsing", "Parsed">>, <<"Parsing", "ParseFailed">> }

C8_OnlyClaimedTransitions ==
    [][\A i \in Tasks : pc'[i] # pc[i] => <<pc[i], pc'[i]>> \in ClaimedTransitions]_vars

\* C8 (amended): the claimed transitions and, when the download raises, the
\* exit Downloading -> PipelineError are the only ones; Downloaded is entered
\* only with a path, Parsing only from Downloaded, and DownloadFailed,
\* ParseFailed, Parsed and PipelineError are never left.
C8_Step ==
    \A i \in Tasks :
        /\ pc'[i] # pc[i] =>
              <<pc[i], pc'[i]>> \in ClaimedTransitions \cup {<<"Downloading", "PipelineError">>}
        /\ pc[i] \in Terminal => pc'[i] = pc[i]
        /\ pc'[i] = "Parsing" => pc[i] \in {"Downloaded", "Parsing"}
        /\ pc'[i] = "Downloaded" => pdf_path'[i] = "path"

C8_StateMachine == [][C8_Step]_vars

\* all terminal states have been entered
C8_Witness ==
    \E i, j, k \in Tasks :
        /\ pc[i] = "ParseFailed" /\ parser_calls[i] = 1
        /\ pc[j] = "DownloadFailed"
        /\ pc[k] = "Parsed"

\* C9: an item whose download returned None is DownloadFailed at once; it
\* never waits for or holds a parse slot and the parser is never called.
C9_NoParseAfterFailedDownload ==
    \A i \in Tasks :
        pdf_path[i] = "None" =>
            /\ pc[i] = "DownloadFailed"
            /\ i \notin parse_holders
            /\ parser_calls[i] = 0
            /\ pdf_content[i] = "unset"
            /\ Outcome(task_result[i]) = "DownloadFailed"

\* a download failed while a parse slot was free, and the run went on
C9_Witness ==
    /\ \E i \in Tasks : pdf_path[i] = "None" /\ pc[i] = "DownloadFailed"
    /\ \E j \in Tasks : pc[j] = "Parsing"
    /\ ~Locked(parse_semaphore)

\* C10: when the run is over, ProcessingStat.errors holds exactly one record
\* for every item that is not Parsed and none for an item that is Parsed.
C10_ErrorsComplete ==
    orch = "done" =>
        \A i \in Tasks :
            Cardinality({k \in 1..Len(errors) : errors[k].record_id = papers[i]})
                = IF pc[i] = "Parsed" THEN 0 ELSE 1


\* C11: a call of the run entry point ends either with the fetch-stage error
\* propagated to the caller and no item pipeline started, or with the stat
\* object returned; the caller never receives neither.
C11_ErrorOrStats ==
    run_pc = "returned" =>
        /\ fetch_raised = "none" => run_result = "ProcessingStat"
        /\ fetch_raised # "none" => run_result = fetch_raised /\ pipelines_started = 0


DlLast == dl_outcomes[Len(dl_outcomes)]
DlTransientBefore(n) == \A m \in 1..(n - 1) : dl_outcomes[m] \in {"timeout", "http_error"}

\* C12: a call with forceRedownload = false that finds a file at the
\* destination returns the path with no network call, no pass through the
\* rate-limit checkpoint and the file as it was; so a second call after a
\* successful one issues no network call.
C12_CacheIdempotence ==
    (dl_pc = "done" /\ ~dl_force /\ dl_file_at_call # "absent") =>
        /\ dl_result = "path"
        /\ dl_net_calls = 0
        /\ dl_rl_passes = 0
        /\ dl_outcomes = << >>
        /\ dl_file = dl_file_at_call

\* the second call of a run of two is served from the cache
C12_Witness ==
    /\ dl_calls_made = 2
    /\ dl_pc = "done"
    /\ ~dl_force
    /\ dl_file_at_call = "complete"
    /\ dl_result = "path"

\* C13: a call whose attempts 1..K-1 fail transiently and whose attempt K
\* succeeds returns the path and records the attempt count K; the call does
\* not give up while attempts are left and the failures are transient.
C13_RetrySuccess ==
    /\ (dl_pc = "done" /\ dl_outcomes # << >> /\ DlLast = "ok") =>
          /\ DlTransientBefore(Len(dl_outcomes))
          /\ dl_result = "path"
          /\ dl_error = NoError
          /\ dl_file = "complete"
          /\ dl_attempt_count = Len(dl_outcomes)
    /\ (dl_pc = "done" /\ dl_result = "None") =>
          \/ Len(dl_outcomes) = dl_max_attempts
          \/ DlLast = "io_error"

\* the last attempt the budget allows succeeded after two failures or more
C13_Witness ==
    /\ dl_pc = "done"
    /\ Len(dl_outcomes) >= 3
    /\ Len(dl_outcomes) = dl_max_attempts
    /\ DlLast = "ok"
    /\ dl_result = "path"

\* C14: when all K attempts fail transiently the call yields None with a
\* DownloadError carrying the attempt count K, and nothing is left at the
\* destination, so a later cache check there does not succeed.
C14_RetryExhaustion ==
    (/\ dl_pc = "done"
     /\ Len(dl_outcomes) = dl_max_attempts
     /\ DlTransientBefore(dl_max_attempts + 1)) =>
        /\ dl_result = "None"
        /\ dl_error = DownloadError(dl_max_attempts)
        /\ dl_file = "absent"
        /\ ~CacheHit(FALSE, dl_file)

\* a forced download over a cached file used up its attempts
C14_Witness ==
    /\ dl_pc = "done"
    /\ dl_max_attempts >= 2
    /\ Len(dl_outcomes) = dl_max_attempts
    /\ DlTransientBefore(dl_max_attempts + 1)
    /\ dl_file_at_call = "complete"
    /\ dl_result = "None"

\* C15: a call makes at most K attempts, every attempt passes the rate-limit
\* checkpoint before its request, and the backoff inserted after failed
\* attempt number n is BaseDelay * n.
C15_RetrySchedule ==
    /\ Len(dl_outcomes) <= dl_max_attempts
    /\ dl_net_calls = Len(dl_outcomes)
    /\ dl_rl_passes = dl_net_calls + (IF dl_pc = "request" THEN 1 ELSE 0)
    /\ Len(dl_backoffs) <= Len(dl_outcomes)
    /\ \A n \in 1..Len(dl_backoffs) :
          /\ dl_outcomes[n] # "ok"
          /\ dl_backoffs[n] = BaseDelay * n

\* three failed attempts were followed by backoffs of 5, 10 and 15
C15_Witness ==
    /\ dl_backoffs = <<5, 10, 15>>
    /\ dl_rl_passes = 4

\* C16: an attempt that fails with an unexpected failure is the last attempt
\* of its call: the call ends at once with DownloadError, whatever remains
\* of the retry budget.
C16_NoRetryOnUnexpected ==
    \A n \in 1..Len(dl_outcomes) :
        dl_outcomes[n] = "io_error" =>
            /\ n = Len(dl_outcomes)
            /\ dl_pc = "done"
            /\ dl_result = "None"
            /\ dl_error = DownloadError(n)

\* the first attempt failed unexpectedly with attempts left
C16_Witness ==
    /\ dl_outcomes = <<"io_error">>
    /\ dl_max_attempts >= 2
    /\ dl_pc = "done"
    /\ dl_error = DownloadError(1)


\* the five preconditions in their fixed order, by the reason the code gives:
\* NotFound, Empty, TooLarge, BadHeader, TooManyUnits
CheckOrder == <<"NotExist", "EmptyFile", "FileSizeOutLimits",
                "FileMissingPDFHeader", "FilePageOutLimits">>
CheckNames == <<"exists", "empty", "size", "header", "pages">>

\* check number k fails on file f
CheckFails(k, f) ==
    CASE k = 1 -> ~f.exists
      [] k = 2 -> f.exists /\ f.size = 0
      [] k = 3 -> f.exists /\ f.size > max_file_size_bytes
      [] k = 4 -> f.exists /\ ~f.header
      [] k = 5 -> f.exists /\ ~f.reader_fails /\ f.pages > max_pages

FailingChecks(f) == {k \in 1..5 : CheckFails(k, f)}
FirstFailing(f) == CHOOSE k \in FailingChecks(f) : \A j \in FailingChecks(f) : k <= j

\* C17: when some precondition fails, parse raises the validation error with
\* the reason of the first failing check in the order NotFound, Empty,
\* TooLarge, BadHeader, TooManyUnits, and the checks evaluated are exactly
\* those up to it; a file that fails none has all five evaluated.
C17_ValidationOrder ==
    val_pc # "validate" =>
        /\ FailingChecks(val_file) # {} =>
              /\ val_raised = "PDFValidationError"
              /\ val_err = CheckOrder[FirstFailing(val_file)]
              /\ val_checks = SubSeq(CheckNames, 1, FirstFailing(val_file))
        /\ FailingChecks(val_file) = {} => val_checks = CheckNames

\* an oversized file with a bad header was rejected as too large
C17_Witness ==
    /\ val_pc = "raised"
    /\ val_file.size > max_file_size_bytes
    /\ ~val_file.header
    /\ val_err = "FileSizeOutLimits"

\* C18: the converter is called only for a file that passed all five
\* preconditions; after a validation failure it is never called.
C18_ConvertOnlyAfterChecks ==
    /\ val_converter_calls > 0 =>
          /\ FailingChecks(val_file) = {}
          /\ val_checks = CheckNames
          /\ val_err = "None"
    /\ val_raised = "PDFValidationError" => val_converter_calls = 0
    /\ val_converter_calls <= 1

\* the converter ran on a file at the limits of size and page count
C18_Witness ==
    /\ val_converter_calls = 1
    /\ val_file.size = max_file_size_bytes
    /\ val_file.pages = max_pages
    /\ val_pc = "returned"
    /\ val_result = "content"

\* C19: an item rejected by a precondition and an item on which the
\* converter failed are never reported to the pipeline's caller as the same
\* result.
C19_RejectionDistinctFromFailure ==
    \A i, j \in Tasks :
        (parser_raised[i] = "PDFValidationError" /\ parser_raised[j] = "ConversionError") =>
            /\ pdf_content[i] # pdf_content[j]
            /\ task_result[i] # task_result[j]


FeedWithId == {k \in 1..Len(feed_entries) : feed_entries[k].has_id}

\* C20: when _parse_response returns, there is exactly one record for every
\* entry that has an identifier, the records are in document order, every
\* record has a non-empty id, and an absent title is the empty text.
C20_OneRecordPerEntry ==
    feed_pc = 0 =>
        /\ Len(feed_papers) = Cardinality(FeedWithId)
        /\ \A r \in 1..Len(feed_papers) : feed_papers[r].entry \in FeedWithId
        /\ \A r, q \in 1..Len(feed_papers) :
              r < q => feed_papers[r].entry < feed_papers[q].entry
        /\ \A r \in 1..Len(feed_papers) :
              /\ feed_papers[r].arxiv_id # << >>
              /\ ~feed_entries[feed_papers[r].entry].has_title => feed_papers[r].title = << >>

\* C21: a transport timeout surfaces from fetch_papers as the timeout error,
\* a non-2xx status or another transport failure as the API error, and a
\* response that cannot be parsed as the parse error, with no list of
\* records returned.
C21_FetchErrorMapping ==
    fp_pc = "returned" =>
        /\ fp_http = "TimeoutException" => fp_result = "ArxivAPITimeoutError"
        /\ fp_http \in {"HTTPStatusError", "ConnectError"} => fp_result = "ArxivAPIException"
        /\ (fp_http = "response" /\ ~feed_wellformed) =>
              /\ fp_result = "ArxivParseError"
              /\ feed_papers = << >>

\* the number of results a call asks for
RequestedMaxResults ==
    IF fp_max_results.given THEN fp_max_results.value ELSE fp_settings_max_results

\* C24: the max_results sent to the search API is the smaller of the
\* requested number (the configured default when none is given) and 2000.
C24_MaxResultsClamped ==
    fp_pc # "call" =>
        /\ fp_params.max_results <= 2000
        /\ fp_params.max_results <= RequestedMaxResults
        /\ fp_params.max_results \in {RequestedMaxResults, 2000}

\* a request for more than the ceiling has been sent with the ceiling
C24_Witness ==
    /\ fp_pc = "requesting"
    /\ fp_max_results.given
    /\ fp_max_results.value > 2000
    /\ fp_params.max_results = 2000

C22_Step ==
    /\ papers_fetched' >= papers_fetched
    /\ pdfs_downloaded' >= pdfs_downloaded
    /\ pdfs_parsed' >= pdfs_parsed

\* C22: over a run no counter of the stat ever decreases, and the numbers of
\* downloaded and of parsed PDFs never exceed the number of fetched papers.
C22_StatCounters ==
    /\ [](pdfs_downloaded <= papers_fetched /\ pdfs_parsed <= papers_fetched)
    /\ [][C22_Step]_vars

\* a run has counted the papers it fetched
C22_Witness ==
    /\ run_pc = "returned"
    /\ papers_fetched > 0

C23_Step ==
    cancel_requested =>
        \A i \in Tasks :
            /\ pc[i] \in Finished => (pc'[i] = pc[i] /\ task_result'[i] = task_result[i])
            /\ (pc[i] \notin Finished /\ pc'[i] # pc[i]) =>
                  (pc'[i] = "Cancelled" /\ task_result'[i].kind = "cancelled")

C25_PathIffSuccess ==
    \A i \in Tasks :
        /\ download_success[i] <=> pdf_path[i] = "path"
        /\ task_result[i].kind = "return" =>
              (task_result[i].download_success <=> pdf_path[i] = "path")

\* one download gave a path and one gave none
C25_Witness ==
    \E i, j \in Tasks :
        /\ download_success[i] /\ pdf_path[i] = "path"
        /\ ~download_success[j] /\ pdf_path[j] = "None"
        /\ task_result[j] = Returned(FALSE, "None")

\* C26: the free slots of each pool are its size less the pipelines inside
\* its stage, whichever way a stage was left, and both pools are full once
\* every pipeline has terminated.
C26_SlotsFollowStages ==
    /\ download_semaphore = max_concurrent_downloads - Cardinality(InStage("Downloading"))
    /\ parse_semaphore = max_concurrent_parsing - Cardinality(InStage("Parsing"))
    /\ (\A i \in Tasks : pc[i] \in Terminal) =>
          /\ download_semaphore = max_concurrent_downloads
          /\ parse_semaphore = max_concurrent_parsing

\* the stages were left by a normal return, by the early return and by an
\* exception, and every pipeline has terminated
C26_Witness ==
    /\ \E i, j, k \in Tasks :
          pc[i] = "Parsed" /\ pc[j] = "DownloadFailed" /\ pc[k] = "PipelineError"
    /\ \A i \in Tasks : pc[i] \in Terminal
    /\ download_semaphore = max_concurrent_downloads
    /\ parse_semaphore = max_concurrent_parsing

FirstPdfHref(e) ==
    LET pdfs == {k \in 1..Len(e.links) : e.links[k].type = "application/pdf"}
    IN IF pdfs = {} THEN << >>
       ELSE e.links[CHOOSE k \in pdfs : \A j \in pdfs : k <= j].href

HasScheme(u, scheme) == Len(u) >= 1 /\ u[1] = scheme

\* C28 as claimed: the PDF link of a returned record has an http:// origin of
\* any host upgraded to https://, and an https:// link is returned unchanged.
C28_AnyHttpUpgraded ==
    feed_pc = 0 =>
        \A r \in 1..Len(feed_papers) :
            LET href == FirstPdfHref(feed_entries[feed_papers[r].entry])
                url == feed_papers[r].pdf_url
            IN /\ HasScheme(href, "http://") => url = <<"https://">> \o Tail(href)
               /\ HasScheme(href, "https://") => url = href

\* position k of u begins an occurrence of http://arxiv.org/
ArxivAt(u, k) ==
    /\ k + 2 <= Len(u)
    /\ u[k] = "http://" /\ u[k + 1] = "arxiv.org" /\ u[k + 2] = "/"

\* C28: a PDF link that begins with http://arxiv.org/ is returned with each
\* http://arxiv.org/ in it turned into https://arxiv.org/; every other
\* link, of another host or already https://, is returned unchanged.
C28_ArxivHttpUpgraded ==
    feed_pc = 0 =>
        \A r \in 1..Len(feed_papers) :
            LET href == FirstPdfHref(feed_entries[feed_papers[r].entry])
                url == feed_papers[r].pdf_url
            IN IF ArxivAt(href, 1)
               THEN /\ Len(url) = Len(href)
                    /\ \A k \in 1..Len(href) :
                          url[k] = IF ArxivAt(href, k) THEN "https://" ELSE href[k]
               ELSE url = href

\* a record whose http://arxiv.org/ link came back as https://arxiv.org/
C28_Witness ==
    /\ feed_pc = 0
    /\ Len(feed_papers) = 1
    /\ FirstPdfHref(feed_entries[1]) = <<"http://", "arxiv.org", "/", "pdf">>
    /\ feed_papers[1].pdf_url = <<"https://", "arxiv.org", "/", "pdf">>

\* the entries that have an identifier and whose parsing does not raise
FeedKept == {k \in 1..Len(feed_entries) :
                feed_entries[k].has_id /\ ~feed_entries[k].raises}

\* C29: when the parsing of an entry raises, that entry alone is dropped:
\* _parse_response returns, without an error, the records of all other
\* entries that have an identifier, in the order of the entries.
C29_RaisingEntryDropped ==
    feed_pc = 0 =>
        /\ feed_raised = "none"
        /\ Len(feed_papers) = Cardinality(FeedKept)
        /\ {feed_papers[r].entry : r \in 1..Len(feed_papers)} = FeedKept
        /\ \A r1, r2 \in 1..Len(feed_papers) :
              r1 < r2 => feed_papers[r1].entry < feed_papers[r2].entry

\* an entry that raised lay between two entries whose records were returned
C29_Witness ==
    /\ feed_pc = 0
    /\ \E a, b, c \in 1..Len(feed_entries) :
          /\ a < b /\ b < c
          /\ a \in FeedKept /\ c \in FeedKept
          /\ feed_entries[b].raises
    /\ Len(feed_papers) >= 2

\* the file gets as far as the page count, which the reader cannot give
ReaderFailsOnCheckedFile ==
    /\ val_file.exists
    /\ val_file.size > 0 /\ val_file.size <= max_file_size_bytes
    /\ val_file.header
    /\ val_file.reader_fails

\* C30: an exception raised while the precondition checks run is a failed
\* validation: parse raises the validation error and the converter is never
\* called for the file.
C30_CheckExceptionRejects ==
    (val_pc # "validate" /\ ReaderFailsOnCheckedFile) =>
        /\ val_raised = "PDFValidationError"
        /\ val_err = "Exception"
        /\ val_converter_calls = 0
        /\ val_pc = "returned" => val_result = "None"

\* the service has returned for a file whose page count could not be read
C30_Witness ==
    /\ val_pc = "returned"
    /\ ReaderFailsOnCheckedFile
    /\ val_raised = "PDFValidationError"
    /\ val_converter_calls = 0

====
